---- MODULE Spec2Model ----
(***************************************************************************)
(* Model of the two CosmWasm contracts of the repository:                  *)
(*   - cw1-whitelist  (src/code_journal_2_cw_whitelist.rs)                 *)
(*   - counter-wba    (src/code_journal_1_counter_contract.rs)             *)
(* Each entry point is one action: it reads the contract's storage, runs   *)
(* the handler and records the call, its result and the storage it ran on  *)
(* in `last` / `clast`.                                                    *)
(***************************************************************************)
EXTENDS Integers, Sequences, FiniteSets, TLC

\* --------------------------------------------------------------------------
\* Bounds of the model
\* --------------------------------------------------------------------------
MaxAdmins == 2
MaxMsgs == 2

\* --------------------------------------------------------------------------
\* Values
\* --------------------------------------------------------------------------
\* identity strings the host's address format accepts
ValidStrings == {"alice", "bob"}
\* an identity string the host's address format rejects
Malformed == "x"
Strings == ValidStrings \cup {Malformed}

\* opaque CosmosMsg payloads (a bank send, and a wasm execute that carries a
\* Freeze message, as in the tests)
CosmosMsgs == {"bank_send", "wasm_execute_freeze"}

SeqsUpTo(S, n) == UNION {[1..k -> S] : k \in 0..n}

AdminInputs == SeqsUpTo(Strings, MaxAdmins)
MsgInputs == SeqsUpTo(CosmosMsgs, MaxMsgs)

\* Addr is a newtype around String
Addr_unchecked(s) == <<"Addr", s>>
Addr_as_ref(a) == a[2]
\* the senders the host can hand to a handler (already validated)
Senders == {Addr_unchecked(s) : s \in ValidStrings}

Range(f) == {f[i] : i \in DOMAIN f}

\* Option<T> as a sequence of length 0 or 1
None == <<>>
Some(x) == <<x>>

WL_CONTRACT_NAME == "crates.io:cw1-whitelist"
CONTRACT_VERSION == "CARGO_PKG_VERSION"

CTR_CONTRACT_NAME == "crates.io:counter-wba"

\* i32
MinI32 == -2147483647 - 1
MaxI32 == 2147483647

\* counts handed to Instantiate and Reset
CountInputs == {MinI32, 0, 5, MaxI32}
\* Increment and Decrement stay within MaxDelta of one of the CountInputs
MaxDelta == 2
InCountRange(c) ==
    \E a \in CountInputs, d \in 0..MaxDelta :
        \/ a <= MaxI32 - d /\ c = a + d
        \/ a >= MinI32 + d /\ c = a - d

VARIABLES
    storage,           \* cw1-whitelist: the contract's storage
    last,              \* cw1-whitelist: the last call, its result and the storage it ran on
    freeze_succeeded,  \* cw1-whitelist: some Freeze call has returned Ok
    cstorage,          \* counter: the contract's storage
    clast,             \* counter: the last call, its result and the storage it ran on
    overflow_checks    \* counter: the instantiated build traps (TRUE) or wraps (FALSE) on
                       \* i32 overflow; FALSE and unused until the counter is instantiated

wlvars == <<storage, last, freeze_succeeded>>
cvars == <<cstorage, clast, overflow_checks>>
vars == <<storage, last, freeze_succeeded, cstorage, clast, overflow_checks>>

\* --------------------------------------------------------------------------
\* Host collaborators (cosmwasm_std)
\* --------------------------------------------------------------------------
\* Api::addr_validate: Ok(Addr) for a well-formed string, Err otherwise
addr_validate(s) ==
    IF s \in ValidStrings
    THEN [ok |-> TRUE, val |-> Addr_unchecked(s)]
    ELSE [ok |-> FALSE, val |-> Addr_unchecked("")]

\* SubMsg::new(msg): fire-and-forget sub-message
SubMsg_new(m) == [id |-> 0, msg |-> m, gas_limit |-> None, reply_on |-> "Never"]

\* Response::add_messages: appends SubMsg::new(m) for each m, in order
add_messages(messages, msgs) ==
    messages \o [i \in 1..Len(msgs) |-> SubMsg_new(msgs[i])]

add_attribute(attributes, k, v) == Append(attributes, <<k, v>>)

\* cw2::set_contract_version: writes the contract_info item
set_contract_version(st, name, version) ==
    [st EXCEPT !.contract_info = Some([contract |-> name, version |-> version])]

\* --------------------------------------------------------------------------
\* AdminList (state.rs)
\* --------------------------------------------------------------------------
is_admin(cfg, addr) == \E i \in DOMAIN cfg.admins : Addr_as_ref(cfg.admins[i]) = addr

can_modify(cfg, addr) == cfg.mutable /\ is_admin(cfg, addr)

\* --------------------------------------------------------------------------
\* Handlers of cw1-whitelist.  Each returns the result, the storage as the
\* handler leaves it, and the response.
\* --------------------------------------------------------------------------
Ret(result, st, messages, attributes) ==
    [result |-> result, storage |-> st, messages |-> messages, attributes |-> attributes]

\* collect::<StdResult<Vec<Addr>>>(): the first Err wins, else all the Addrs in order
map_validate(admins) ==
    IF \A i \in DOMAIN admins : addr_validate(admins[i]).ok
    THEN [ok |-> TRUE, val |-> [i \in 1..Len(admins) |-> addr_validate(admins[i]).val]]
    ELSE [ok |-> FALSE, val |-> <<>>]

\* variant: the instantiating caller is added to the roster
instantiate_adds_sender(st, sender, admins, mutable) ==
    LET st1 == set_contract_version(st, WL_CONTRACT_NAME, CONTRACT_VERSION)
        v == map_validate(admins)
    IN IF ~v.ok
       THEN Ret("InvalidAddress", st1, <<>>, <<>>)
       ELSE Ret("Ok",
                [st1 EXCEPT !.admin_list =
                    Some([admins |-> Append(v.val, sender), mutable |-> mutable])],
                <<>>, <<>>)

instantiate(st, sender, admins, mutable) ==
    LET st1 == set_contract_version(st, WL_CONTRACT_NAME, CONTRACT_VERSION)
        v == map_validate(admins)
    IN IF ~v.ok
       THEN Ret("InvalidAddress", st1, <<>>, <<>>)
       ELSE Ret("Ok",
                [st1 EXCEPT !.admin_list = Some([admins |-> v.val, mutable |-> mutable])],
                <<>>, <<>>)

can_execute(st, sender) == is_admin(st.admin_list[1], sender)

\* variant: the gate is can_modify, so execution rights end with the freeze
execute_execute_requires_mutable(st, sender, msgs) ==
    IF ~can_modify(st.admin_list[1], Addr_as_ref(sender))
    THEN Ret("Unauthorized", st, <<>>, <<>>)
    ELSE Ret("Ok", st, add_messages(<<>>, msgs), add_attribute(<<>>, "action", "execute"))

\* variant: a forwarded Freeze payload is carried out on the roster itself
execute_execute_applies_freeze(st, sender, msgs) ==
    LET cfg == st.admin_list[1]
    IN IF ~can_execute(st, Addr_as_ref(sender))
       THEN Ret("Unauthorized", st, <<>>, <<>>)
       ELSE Ret("Ok",
                IF "wasm_execute_freeze" \in Range(msgs)
                THEN [st EXCEPT !.admin_list = Some([cfg EXCEPT !.mutable = FALSE])]
                ELSE st,
                add_messages(<<>>, msgs), add_attribute(<<>>, "action", "execute"))

\* variant: the messages are forwarded in reverse order
execute_execute_reversed(st, sender, msgs) ==
    IF ~can_execute(st, Addr_as_ref(sender))
    THEN Ret("Unauthorized", st, <<>>, <<>>)
    ELSE Ret("Ok", st,
             add_messages(<<>>, [i \in 1..Len(msgs) |-> msgs[Len(msgs) + 1 - i]]),
             add_attribute(<<>>, "action", "execute"))

execute_execute(st, sender, msgs) ==
    IF ~can_execute(st, Addr_as_ref(sender))
    THEN Ret("Unauthorized", st, <<>>, <<>>)
    ELSE Ret("Ok", st, add_messages(<<>>, msgs), add_attribute(<<>>, "action", "execute"))

\* variant: the frozen flag is set on the loaded copy but never saved
execute_freeze_no_save(st, sender) ==
    LET cfg == st.admin_list[1]
    IN IF ~can_modify(cfg, Addr_as_ref(sender))
       THEN Ret("Unauthorized", st, <<>>, <<>>)
       ELSE Ret("Ok", st, <<>>, add_attribute(<<>>, "action", "freeze"))

\* variant: only the mutable flag is checked, not the caller
execute_freeze_any_caller(st, sender) ==
    LET cfg == st.admin_list[1]
    IN IF ~cfg.mutable
       THEN Ret("Unauthorized", st, <<>>, <<>>)
       ELSE Ret("Ok",
                [st EXCEPT !.admin_list = Some([cfg EXCEPT !.mutable = FALSE])],
                <<>>, add_attribute(<<>>, "action", "freeze"))

execute_freeze(st, sender) ==
    LET cfg == st.admin_list[1]
    IN IF ~can_modify(cfg, Addr_as_ref(sender))
       THEN Ret("Unauthorized", st, <<>>, <<>>)
       ELSE Ret("Ok",
                [st EXCEPT !.admin_list = Some([cfg EXCEPT !.mutable = FALSE])],
                <<>>, add_attribute(<<>>, "action", "freeze"))

\* variant: the gate is is_admin, so an admin can still edit a frozen roster
execute_update_admins_is_admin_only(st, sender, admins) ==
    LET cfg == st.admin_list[1]
        v == map_validate(admins)
    IN IF ~is_admin(cfg, Addr_as_ref(sender))
       THEN Ret("Unauthorized", st, <<>>, <<>>)
       ELSE IF ~v.ok
            THEN Ret("InvalidAddress", st, <<>>, <<>>)
            ELSE Ret("Ok",
                     [st EXCEPT !.admin_list = Some([cfg EXCEPT !.admins = v.val])],
                     <<>>, add_attribute(<<>>, "action", "update_admins"))

\* variant: the new identities are added to the roster instead of replacing it
execute_update_admins_extend(st, sender, admins) ==
    LET cfg == st.admin_list[1]
        v == map_validate(admins)
    IN IF ~can_modify(cfg, Addr_as_ref(sender))
       THEN Ret("Unauthorized", st, <<>>, <<>>)
       ELSE IF ~v.ok
            THEN Ret("InvalidAddress", st, <<>>, <<>>)
            ELSE Ret("Ok",
                     [st EXCEPT !.admin_list =
                         Some([cfg EXCEPT !.admins = cfg.admins \o v.val])],
                     <<>>, add_attribute(<<>>, "action", "update_admins"))

\* variant: the roster is stored as a set, a repeated identity is dropped
execute_update_admins_dedup(st, sender, admins) ==
    LET cfg == st.admin_list[1]
        v == map_validate(admins)
        first == {i \in DOMAIN v.val : \A j \in 1..(i - 1) : v.val[j] # v.val[i]}
        kept == SelectSeq([i \in 1..Len(v.val) |-> <<i, v.val[i]>>],
                          LAMBDA p : p[1] \in first)
    IN IF ~can_modify(cfg, Addr_as_ref(sender))
       THEN Ret("Unauthorized", st, <<>>, <<>>)
       ELSE IF ~v.ok
            THEN Ret("InvalidAddress", st, <<>>, <<>>)
            ELSE Ret("Ok",
                     [st EXCEPT !.admin_list =
                         Some([cfg EXCEPT !.admins = [i \in 1..Len(kept) |-> kept[i][2]]])],
                     <<>>, add_attribute(<<>>, "action", "update_admins"))

\* variant: the list is validated before the caller is checked
execute_update_admins_validates_first(st, sender, admins) ==
    LET cfg == st.admin_list[1]
        v == map_validate(admins)
    IN IF ~v.ok
       THEN Ret("InvalidAddress", st, <<>>, <<>>)
       ELSE IF ~can_modify(cfg, Addr_as_ref(sender))
            THEN Ret("Unauthorized", st, <<>>, <<>>)
            ELSE Ret("Ok",
                     [st EXCEPT !.admin_list = Some([cfg EXCEPT !.admins = v.val])],
                     <<>>, add_attribute(<<>>, "action", "update_admins"))

\* variant: a mutable roster without admins can be set by anyone
execute_update_admins_open_when_empty(st, sender, admins) ==
    LET cfg == st.admin_list[1]
        v == map_validate(admins)
    IN IF ~(can_modify(cfg, Addr_as_ref(sender)) \/ (cfg.mutable /\ cfg.admins = <<>>))
       THEN Ret("Unauthorized", st, <<>>, <<>>)
       ELSE IF ~v.ok
            THEN Ret("InvalidAddress", st, <<>>, <<>>)
            ELSE Ret("Ok",
                     [st EXCEPT !.admin_list = Some([cfg EXCEPT !.admins = v.val])],
                     <<>>, add_attribute(<<>>, "action", "update_admins"))

\* variant: the roster is saved entry by entry, the well-formed entries are
\* already stored when a malformed one is met
execute_update_admins_partial(st, sender, admins) ==
    LET cfg == st.admin_list[1]
        v == map_validate(admins)
        good == SelectSeq(admins, LAMBDA a : addr_validate(a).ok)
        kept == [i \in 1..Len(good) |-> addr_validate(good[i]).val]
    IN IF ~can_modify(cfg, Addr_as_ref(sender))
       THEN Ret("Unauthorized", st, <<>>, <<>>)
       ELSE IF ~v.ok
            THEN Ret("InvalidAddress",
                     [st EXCEPT !.admin_list = Some([cfg EXCEPT !.admins = kept])],
                     <<>>, <<>>)
            ELSE Ret("Ok",
                     [st EXCEPT !.admin_list = Some([cfg EXCEPT !.admins = v.val])],
                     <<>>, add_attribute(<<>>, "action", "update_admins"))

execute_update_admins(st, sender, admins) ==
    LET cfg == st.admin_list[1]
        v == map_validate(admins)
    IN IF ~can_modify(cfg, Addr_as_ref(sender))
       THEN Ret("Unauthorized", st, <<>>, <<>>)
       ELSE IF ~v.ok
            THEN Ret("InvalidAddress", st, <<>>, <<>>)
            ELSE Ret("Ok",
                     [st EXCEPT !.admin_list = Some([cfg EXCEPT !.admins = v.val])],
                     <<>>, add_attribute(<<>>, "action", "update_admins"))

\* AdminListResponse { admins: Vec<String>, mutable }
query_admin_list(st) ==
    LET cfg == st.admin_list[1]
    IN [admins |-> [i \in 1..Len(cfg.admins) |-> Addr_as_ref(cfg.admins[i])],
        mutable |-> cfg.mutable]

\* variant: the payload is inspected, a forwarded wasm execute is refused
query_can_execute_inspects_msg(st, sender, msg) ==
    [can_execute |-> can_execute(st, sender) /\ msg # "wasm_execute_freeze"]

\* CanExecuteResponse { can_execute }; _msg is not looked at
query_can_execute(st, sender, msg) == [can_execute |-> can_execute(st, sender)]

\* --------------------------------------------------------------------------
\* The state machine of cw1-whitelist
\* --------------------------------------------------------------------------
EmptyStorage == [contract_info |-> None, admin_list |-> None]

NoData == [admins |-> <<>>, mutable |-> FALSE, can_execute |-> FALSE]

Call(op, sender, admins, mutable, msgs, msg, r, data, pre) ==
    [op |-> op, sender |-> sender, admins |-> admins, mutable |-> mutable,
     msgs |-> msgs, msg |-> msg,
     result |-> r.result, messages |-> r.messages, attributes |-> r.attributes,
     data |-> data, pre |-> pre]

NoCall ==
    Call("none", "", <<>>, FALSE, <<>>, "", Ret("Ok", EmptyStorage, <<>>, <<>>),
         NoData, EmptyStorage)

\* the host dispatches execute and query only to an instantiated contract
Instantiated == storage.admin_list # None

WLInit ==
    /\ storage = EmptyStorage
    /\ last = NoCall
    /\ freeze_succeeded = FALSE

Instantiate ==
    /\ ~Instantiated
    /\ \E sender \in Senders, admins \in AdminInputs, mutable \in BOOLEAN :
         LET r == instantiate(storage, sender, admins, mutable)
         IN /\ storage' = r.storage
            /\ last' = Call("instantiate", Addr_as_ref(sender), admins, mutable, <<>>, "",
                            r, NoData, storage)
    /\ UNCHANGED <<freeze_succeeded, cvars>>

Execute ==
    /\ Instantiated
    /\ \E sender \in Senders, msgs \in MsgInputs :
         LET r == execute_execute(storage, sender, msgs)
         IN /\ storage' = r.storage
            /\ last' = Call("execute", Addr_as_ref(sender), <<>>, FALSE, msgs, "",
                            r, NoData, storage)
    /\ UNCHANGED <<freeze_succeeded, cvars>>

Freeze ==
    /\ Instantiated
    /\ \E sender \in Senders :
         LET r == execute_freeze(storage, sender)
         IN /\ storage' = r.storage
            /\ last' = Call("freeze", Addr_as_ref(sender), <<>>, FALSE, <<>>, "",
                            r, NoData, storage)
            /\ freeze_succeeded' = (freeze_succeeded \/ r.result = "Ok")
    /\ UNCHANGED cvars

UpdateAdmins ==
    /\ Instantiated
    /\ \E sender \in Senders, admins \in AdminInputs :
         LET r == execute_update_admins(storage, sender, admins)
         IN /\ storage' = r.storage
            /\ last' = Call("update_admins", Addr_as_ref(sender), admins, FALSE, <<>>, "",
                            r, NoData, storage)
    /\ UNCHANGED <<freeze_succeeded, cvars>>

QueryAdminList ==
    /\ Instantiated
    /\ LET d == query_admin_list(storage)
       IN last' = Call("query_admin_list", "", <<>>, FALSE, <<>>, "",
                       Ret("Ok", storage, <<>>, <<>>),
                       [NoData EXCEPT !.admins = d.admins, !.mutable = d.mutable], storage)
    /\ UNCHANGED <<storage, freeze_succeeded, cvars>>

QueryCanExecute ==
    /\ Instantiated
    /\ \E sender \in Strings, msg \in CosmosMsgs :
         LET d == query_can_execute(storage, sender, msg)
         IN last' = Call("query_can_execute", sender, <<>>, FALSE, <<>>, msg,
                         Ret("Ok", storage, <<>>, <<>>),
                         [NoData EXCEPT !.can_execute = d.can_execute], storage)
    /\ UNCHANGED <<storage, freeze_succeeded, cvars>>

\* --------------------------------------------------------------------------
\* Handlers of counter-wba
\* --------------------------------------------------------------------------
CRet(result, st, attributes) == [result |-> result, storage |-> st, attributes |-> attributes]

\* i32 `+= 1` and `-= 1`: trap with overflow checks, wrap without
add_one(c, checks) ==
    IF c = MaxI32
    THEN [ok |-> ~checks, val |-> MinI32]
    ELSE [ok |-> TRUE, val |-> c + 1]

sub_one(c, checks) ==
    IF c = MinI32
    THEN [ok |-> ~checks, val |-> MaxI32]
    ELSE [ok |-> TRUE, val |-> c - 1]

counter_instantiate(st, sender, count) ==
    LET state == [count |-> count, owner |-> sender, poll_count |-> 0]
        st1 == set_contract_version(st, CTR_CONTRACT_NAME, CONTRACT_VERSION)
    IN CRet("Ok", [st1 EXCEPT !.state = Some(state)],
            add_attribute(add_attribute(add_attribute(<<>>,
                "method", "instantiate"),
                "owner", Addr_as_ref(sender)),
                "count", ToString(count)))

try_increment(st, checks) ==
    LET state == st.state[1]
        n == add_one(state.count, checks)
    IN IF ~n.ok
       THEN CRet("Panic", st, <<>>)
       ELSE CRet("Ok", [st EXCEPT !.state = Some([state EXCEPT !.count = n.val])],
                 add_attribute(<<>>, "method", "try_increment"))

\* variant: the body of try_increment copied unchanged, the count goes up
try_decrement_adds(st, checks) ==
    LET state == st.state[1]
        n == add_one(state.count, checks)
    IN IF ~n.ok
       THEN CRet("Panic", st, <<>>)
       ELSE CRet("Ok", [st EXCEPT !.state = Some([state EXCEPT !.count = n.val])],
                 add_attribute(<<>>, "method", "try_increment"))

try_decrement(st, checks) ==
    LET state == st.state[1]
        n == sub_one(state.count, checks)
    IN IF ~n.ok
       THEN CRet("Panic", st, <<>>)
       ELSE CRet("Ok", [st EXCEPT !.state = Some([state EXCEPT !.count = n.val])],
                 add_attribute(<<>>, "method", "try_increment"))

\* variant: a successful reset is also counted in poll_count
try_reset_counts_poll(st, sender, count) ==
    LET state == st.state[1]
    IN IF sender # state.owner
       THEN CRet("Unauthorized", st, <<>>)
       ELSE CRet("Ok",
                 [st EXCEPT !.state =
                     Some([state EXCEPT !.count = count, !.poll_count = state.poll_count + 1])],
                 add_attribute(<<>>, "method", "reset"))

\* variant: no owner check
try_reset_unchecked(st, sender, count) ==
    LET state == st.state[1]
    IN CRet("Ok", [st EXCEPT !.state = Some([state EXCEPT !.count = count])],
            add_attribute(<<>>, "method", "reset"))

try_reset(st, sender, count) ==
    LET state == st.state[1]
    IN IF sender # state.owner
       THEN CRet("Unauthorized", st, <<>>)
       ELSE CRet("Ok", [st EXCEPT !.state = Some([state EXCEPT !.count = count])],
                 add_attribute(<<>>, "method", "reset"))

\* variant: the wrong integer field of State is reported
query_count_reports_poll_count(st) == [count |-> st.state[1].poll_count]

\* CountResponse { count }
query_count(st) == [count |-> st.state[1].count]

\* --------------------------------------------------------------------------
\* The state machine of counter-wba
\* --------------------------------------------------------------------------
CEmptyStorage == [contract_info |-> None, state |-> None]

CCall(op, sender, count, r, data, pre) ==
    [op |-> op, sender |-> sender, count |-> count,
     result |-> r.result, attributes |-> r.attributes, data |-> data, pre |-> pre]

CNoCall == CCall("none", "", 0, CRet("Ok", CEmptyStorage, <<>>), 0, CEmptyStorage)

CInstantiated == cstorage.state # None

CInit ==
    /\ cstorage = CEmptyStorage
    /\ clast = CNoCall
    /\ overflow_checks = FALSE

CounterInstantiate ==
    /\ ~CInstantiated
    /\ \E sender \in Senders, count \in CountInputs :
         LET r == counter_instantiate(cstorage, sender, count)
         IN /\ cstorage' = r.storage
            /\ clast' = CCall("instantiate", Addr_as_ref(sender), count, r, 0, cstorage)
    \* the profile the instantiated code was built with
    /\ overflow_checks' \in BOOLEAN
    /\ UNCHANGED wlvars

Increment ==
    /\ CInstantiated
    /\ \E sender \in Senders :
         LET r == try_increment(cstorage, overflow_checks)
         IN /\ InCountRange(r.storage.state[1].count)
            /\ cstorage' = r.storage
            /\ clast' = CCall("increment", Addr_as_ref(sender), 0, r, 0, cstorage)
    /\ UNCHANGED <<overflow_checks, wlvars>>

Decrement ==
    /\ CInstantiated
    /\ \E sender \in Senders :
         LET r == try_decrement(cstorage, overflow_checks)
         IN /\ InCountRange(r.storage.state[1].count)
            /\ cstorage' = r.storage
            /\ clast' = CCall("decrement", Addr_as_ref(sender), 0, r, 0, cstorage)
    /\ UNCHANGED <<overflow_checks, wlvars>>

Reset ==
    /\ CInstantiated
    /\ \E sender \in Senders, count \in CountInputs :
         LET r == try_reset(cstorage, sender, count)
         IN /\ cstorage' = r.storage
            /\ clast' = CCall("reset", Addr_as_ref(sender), count, r, 0, cstorage)
    /\ UNCHANGED <<overflow_checks, wlvars>>

QueryCount ==
    /\ CInstantiated
    /\ clast' = CCall("query_count", "", 0, CRet("Ok", cstorage, <<>>),
                      query_count(cstorage).count, cstorage)
    /\ UNCHANGED <<cstorage, overflow_checks, wlvars>>

\* --------------------------------------------------------------------------
\* Specifications
\* --------------------------------------------------------------------------
Init == WLInit /\ CInit

\* cw1-whitelist
Next ==
    \/ Instantiate
    \/ Execute
    \/ Freeze
    \/ UpdateAdmins
    \/ QueryAdminList
    \/ QueryCanExecute

Spec == Init /\ [][Next]_vars

\* counter-wba
CounterNext ==
    \/ CounterInstantiate
    \/ Increment
    \/ Decrement
    \/ Reset
    \/ QueryCount

CounterSpec == Init /\ [][CounterNext]_vars

\* cw1-whitelist and counter-wba are separate programs, each with its own
\* storage: a deployment is an instance of one of them
DeployNext ==
    \/ cstorage = CEmptyStorage /\ Next
    \/ storage = EmptyStorage /\ CounterNext

DeploySpec == Init /\ [][DeployNext]_vars

\* --------------------------------------------------------------------------
\* Properties of cw1-whitelist (checked under Spec)
\* --------------------------------------------------------------------------
\* the identities on the roster held in a storage
RosterOf(st) == {Addr_as_ref(a) : a \in Range(st.admin_list[1].admins)}
MutableIn(st) == st.admin_list[1].mutable
ModifyingOps == {"freeze", "update_admins"}
ExecuteOps == {"execute", "freeze", "update_admins"}

\* C1: freeze is one-way.  Once some Freeze call has returned Ok, every later
\* Freeze call and every later UpdateAdmins call, by any caller and with any
\* list, returns Unauthorized.
C1_FreezeIsOneWay ==
    [][(freeze_succeeded /\ last'.op \in ModifyingOps)
          => last'.result = "Unauthorized"]_vars

\* an admin of the frozen roster asked for a well-formed new roster after a
\* successful Freeze, and was refused
C1_Witness ==
    /\ freeze_succeeded
    /\ last.op = "update_admins"
    /\ last.sender \in RosterOf(last.pre)
    /\ map_validate(last.admins).ok
    /\ last.result = "Unauthorized"

\* C2: the Frozen state is permanent.  An Execute, Freeze or UpdateAdmins call
\* that runs on a record whose mutable flag is false (set by Freeze or by
\* instantiate) leaves admins and mutable as they were.
C2_FrozenIsPermanent ==
    (last.op \in ExecuteOps /\ ~MutableIn(last.pre))
        => /\ storage.admin_list = last.pre.admin_list
           /\ ~MutableIn(storage)

\* a roster instantiated with mutable = false, never frozen by a call: one of
\* its admins asked for a different well-formed roster
C2_Witness ==
    /\ ~freeze_succeeded
    /\ last.op = "update_admins"
    /\ ~MutableIn(last.pre)
    /\ last.sender \in RosterOf(last.pre)
    /\ map_validate(last.admins).ok
    /\ last.admins # query_admin_list(last.pre).admins

\* C3: can_modify gates both modifying operations.  Freeze by c returns
\* Unauthorized exactly when it is not the case that mutable is true and c is
\* on the roster, and so does UpdateAdmins by c.
C3_CanModifyGatesBoth ==
    last.op \in ModifyingOps
        => (last.result = "Unauthorized"
              <=> ~(MutableIn(last.pre) /\ last.sender \in RosterOf(last.pre)))

\* a caller who is not on a mutable roster was refused the Freeze
C3_Witness ==
    /\ last.op = "freeze"
    /\ MutableIn(last.pre)
    /\ last.sender \notin RosterOf(last.pre)
    /\ last.result = "Unauthorized"

\* C4: UpdateAdmins replaces the roster wholesale.  After UpdateAdmins(new_list)
\* returned Ok, query_admin_list gives admins = new_list, element for element,
\* and mutable is still true.
C4_UpdateReplacesRoster ==
    (last.op = "update_admins" /\ last.result = "Ok")
        => /\ query_admin_list(storage).admins = last.admins
           /\ query_admin_list(storage).mutable
           /\ MutableIn(last.pre)

\* a roster was replaced by one that repeats an identity and shares none with
\* the prior roster
C4_Witness ==
    /\ last.op = "update_admins"
    /\ last.result = "Ok"
    /\ Len(last.admins) = 2
    /\ last.admins[1] = last.admins[2]
    /\ RosterOf(last.pre) # {}
    /\ RosterOf(last.pre) \cap Range(last.admins) = {}

\* C5: execution rights depend only on membership.  Execute by c returns Ok
\* when c is on the roster and Unauthorized when it is not, whatever mutable is.
C5_ExecuteNeedsMembershipOnly ==
    last.op = "execute"
        => /\ last.result = "Ok" <=> last.sender \in RosterOf(last.pre)
           /\ last.result \in {"Ok", "Unauthorized"}

\* an admin executed after the roster had been frozen by a call
C5_Witness ==
    /\ freeze_succeeded
    /\ ~MutableIn(last.pre)
    /\ last.op = "execute"
    /\ last.result = "Ok"

\* C6: a successful Execute(msgs) returns msgs verbatim: as many messages as
\* were supplied, the i-th message carrying the i-th supplied payload, and the
\* single attribute action=execute.
C6_ExecuteForwardsVerbatim ==
    (last.op = "execute" /\ last.result = "Ok")
        => /\ Len(last.messages) = Len(last.msgs)
           /\ \A i \in 1..Len(last.msgs) : last.messages[i].msg = last.msgs[i]
           /\ last.attributes = <<(<<"action", "execute">>)>>

\* two different payloads were forwarded
C6_Witness ==
    /\ last.op = "execute"
    /\ last.result = "Ok"
    /\ Len(last.msgs) = 2
    /\ last.msgs[1] # last.msgs[2]

\* C7: a removed identity loses its rights with the next call.  In the call that
\* follows a successful UpdateAdmins(new_list), a caller that was on the prior
\* roster and is not in new_list gets Unauthorized for Freeze, UpdateAdmins and
\* Execute, and a Freeze by a member of new_list returns Ok.
C7_RemovedAdminLosesRights ==
    [][(last.op = "update_admins" /\ last.result = "Ok")
          => /\ (/\ last'.op \in ExecuteOps
                 /\ last'.sender \in RosterOf(last.pre)
                 /\ last'.sender \notin Range(last.admins))
                   => last'.result = "Unauthorized"
             /\ (/\ last'.op = "freeze"
                 /\ last'.sender \in Range(last.admins))
                   => last'.result = "Ok"]_vars

\* a successful UpdateAdmins removed an identity and kept or named another
C7_Witness ==
    /\ last.op = "update_admins"
    /\ last.result = "Ok"
    /\ RosterOf(last.pre) \ Range(last.admins) # {}
    /\ last.admins # <<>>

\* C8: query_can_execute agrees with the execute gate and ignores the payload.
\* For every identity and any two payloads the answers are equal, equal to
\* membership of the roster, and equal to whether Execute by that identity
\* returns Ok, whatever mutable is.
C8_QueryCanExecuteAgrees ==
    /\ Instantiated =>
         \A id \in Strings :
            /\ \A m1, m2 \in CosmosMsgs :
                  /\ query_can_execute(storage, id, m1)
                        = query_can_execute(storage, id, m2)
                  /\ query_can_execute(storage, id, m1).can_execute
                        = (id \in RosterOf(storage))
            /\ \A m \in CosmosMsgs, msgs \in MsgInputs :
                  id \in ValidStrings =>
                     (query_can_execute(storage, id, m).can_execute
                        <=> execute_execute(storage, Addr_unchecked(id), msgs).result = "Ok")
    /\ last.op = "query_can_execute"
         => last.data.can_execute = (last.sender \in RosterOf(last.pre))

\* an admin of a roster that is not mutable was answered true for a payload
\* that carries a Freeze
C8_Witness ==
    /\ last.op = "query_can_execute"
    /\ ~MutableIn(last.pre)
    /\ last.msg = "wasm_execute_freeze"
    /\ last.data.can_execute

\* C9: instantiate stores the list as given.  After instantiate(admins,
\* mutable_flag) returned Ok, query_admin_list gives exactly (admins,
\* mutable_flag), whoever the instantiating caller is.
C9_InstantiateStoresAsGiven ==
    (last.op = "instantiate" /\ last.result = "Ok")
        => /\ query_admin_list(storage).admins = last.admins
           /\ query_admin_list(storage).mutable = last.mutable

\* instantiated with a list that repeats an identity, by a caller who is not
\* in the list
C9_Witness ==
    /\ last.op = "instantiate"
    /\ last.result = "Ok"
    /\ Len(last.admins) = 2
    /\ last.admins[1] = last.admins[2]
    /\ last.sender \notin Range(last.admins)

\* --------------------------------------------------------------------------
\* Properties of counter-wba (checked under CounterSpec)
\* --------------------------------------------------------------------------
OwnerIn(st) == Addr_as_ref(st.state[1].owner)

\* C10: Reset is owner-gated.  Reset(new_count) by a caller other than owner
\* returns Unauthorized and leaves count as it was; by owner it returns Ok and
\* query_count gives new_count.
C10_ResetIsOwnerGated ==
    clast.op = "reset"
        => IF clast.sender # OwnerIn(clast.pre)
           THEN /\ clast.result = "Unauthorized"
                /\ query_count(cstorage).count = query_count(clast.pre).count
           ELSE /\ clast.result = "Ok"
                /\ query_count(cstorage).count = clast.count

\* a caller other than owner asked for a count different from the current one
C10_Witness ==
    /\ clast.op = "reset"
    /\ clast.sender # OwnerIn(clast.pre)
    /\ clast.count # query_count(clast.pre).count
    /\ clast.result = "Unauthorized"
CountIn(st) == st.state[1].count
\* the fields of State other than count
OtherFields(st) == <<st.state[1].owner, st.state[1].poll_count, st.contract_info>>
\* b is exactly one more than a, as i32 values
OneGreater(a, b) == a < MaxI32 /\ b = a + 1

\* C11 as stated: for every caller and every count an i32 can hold, the largest
\* and the smallest included, Increment returns Ok and leaves count one
\* greater, Decrement returns Ok and leaves count one smaller, and no other
\* field changes.
C11_AsStated ==
    /\ clast.op = "increment"
         => /\ clast.result = "Ok"
            /\ OneGreater(CountIn(clast.pre), CountIn(cstorage))
            /\ OtherFields(cstorage) = OtherFields(clast.pre)
    /\ clast.op = "decrement"
         => /\ clast.result = "Ok"
            /\ OneGreater(CountIn(cstorage), CountIn(clast.pre))
            /\ OtherFields(cstorage) = OtherFields(clast.pre)

\* C11 as amended: for every caller, Increment on a count below the largest i32
\* returns Ok and leaves count one greater; on the largest i32 it either aborts
\* and leaves the record as it was (overflow checks on) or returns Ok with the
\* smallest i32 (overflow checks off).  Decrement is the mirror image at the
\* smallest i32.  No other field changes in any case.
C11_ExactAwayFromTheBounds ==
    /\ clast.op = "increment"
         => /\ OtherFields(cstorage) = OtherFields(clast.pre)
            /\ IF CountIn(clast.pre) # MaxI32
               THEN /\ clast.result = "Ok"
                    /\ OneGreater(CountIn(clast.pre), CountIn(cstorage))
               ELSE IF overflow_checks
                    THEN clast.result = "Panic" /\ cstorage = clast.pre
                    ELSE clast.result = "Ok" /\ CountIn(cstorage) = MinI32
    /\ clast.op = "decrement"
         => /\ OtherFields(cstorage) = OtherFields(clast.pre)
            /\ IF CountIn(clast.pre) # MinI32
               THEN /\ clast.result = "Ok"
                    /\ OneGreater(CountIn(cstorage), CountIn(clast.pre))
               ELSE IF overflow_checks
                    THEN clast.result = "Panic" /\ cstorage = clast.pre
                    ELSE clast.result = "Ok" /\ CountIn(cstorage) = MaxI32

\* a caller other than owner decremented the smallest i32
C11_Witness ==
    /\ clast.op = "decrement"
    /\ clast.sender # OwnerIn(clast.pre)
    /\ CountIn(clast.pre) = MinI32

\* C12: owner and poll_count are fixed at instantiate.  Instantiate leaves
\* owner = the instantiating caller and poll_count = 0, and no later step
\* (Increment, Decrement, Reset, successful or not) changes either.
C12_OwnerAndPollCountFixed ==
    /\ [](clast.op = "instantiate"
            => /\ OwnerIn(cstorage) = clast.sender
               /\ cstorage.state[1].poll_count = 0)
    /\ [][CInstantiated
            => /\ cstorage'.state[1].owner = cstorage.state[1].owner
               /\ cstorage'.state[1].poll_count = cstorage.state[1].poll_count]_vars

\* the owner reset the counter to a different count
C12_Witness ==
    /\ clast.op = "reset"
    /\ clast.result = "Ok"
    /\ clast.count # CountIn(clast.pre)
    /\ cstorage.state[1].poll_count = 0
    /\ OwnerIn(cstorage) = clast.sender

MethodOf(attributes) == {a[2] : a \in {b \in Range(attributes) : b[1] = "method"}}

\* C13: the method attribute of a response names the operation invoked: the
\* label of a successful Increment, Decrement or Reset response differs from
\* the labels the two other operations answer with.
C13_MethodNamesTheOperation ==
    (clast.result = "Ok" /\ clast.op \in {"increment", "decrement", "reset"})
        => LET inc == try_increment(clast.pre, overflow_checks)
               dec == try_decrement(clast.pre, overflow_checks)
               res == try_reset(clast.pre, clast.pre.state[1].owner, 0)
               others == [increment |-> {dec, res},
                          decrement |-> {inc, res},
                          reset |-> {inc, dec}]
           IN \A r \in others[clast.op] :
                 r.result = "Ok" => MethodOf(r.attributes) \cap MethodOf(clast.attributes) = {}
\* --------------------------------------------------------------------------
\* Properties of both contracts (checked under DeploySpec)
\* --------------------------------------------------------------------------
DomainErrors == {"Unauthorized", "InvalidAddress"}
CounterExecuteOps == {"increment", "decrement", "reset"}
QueryOps == {"query_admin_list", "query_can_execute"}

\* C14: failed execute calls change nothing.  An Execute, Freeze, UpdateAdmins,
\* Increment, Decrement or Reset call that returns Unauthorized or
\* InvalidAddress leaves the contract's storage exactly as it was.
C14_FailedExecuteChangesNothing ==
    /\ (last.op \in ExecuteOps /\ last.result \in DomainErrors) => storage = last.pre
    /\ (clast.op \in CounterExecuteOps /\ clast.result \in DomainErrors)
          => cstorage = clast.pre

\* an authorised caller supplied a list whose first identity is well-formed and
\* whose second is malformed
C14_Witness ==
    /\ last.op = "update_admins"
    /\ last.result = "InvalidAddress"
    /\ Len(last.admins) = 2
    /\ last.admins[1] \in ValidStrings
    /\ last.admins[1] \notin RosterOf(last.pre)
    /\ last.admins[2] = Malformed

\* C15: queries are pure reads.  A query_admin_list, query_can_execute or
\* query_count step leaves the storage of both contracts unchanged;
\* query_admin_list answers with the stored admins and mutable flag and
\* query_count with the stored count.
C15_QueriesArePureReads ==
    /\ [](last.op = "query_admin_list"
            => /\ Len(last.data.admins) = Len(storage.admin_list[1].admins)
               /\ \A i \in 1..Len(last.data.admins) :
                     Addr_unchecked(last.data.admins[i]) = storage.admin_list[1].admins[i]
               /\ last.data.mutable = storage.admin_list[1].mutable)
    /\ [](clast.op = "query_count" => clast.data = cstorage.state[1].count)
    /\ [][(\/ last' # last /\ last'.op \in QueryOps
           \/ clast' # clast /\ clast'.op = "query_count")
             => storage' = storage /\ cstorage' = cstorage]_vars

\* a count other than zero was read back
C15_Witness ==
    /\ clast.op = "query_count"
    /\ clast.data # 0
    /\ clast.data = cstorage.state[1].count
\* --------------------------------------------------------------------------
\* Further properties of cw1-whitelist (checked under Spec)
\* --------------------------------------------------------------------------
HasMalformed(admins) == \E i \in DOMAIN admins : admins[i] \notin ValidStrings

\* C16: a failing instantiate writes nothing.  instantiate with a list that
\* holds a malformed identity returns InvalidAddress, and when it returns
\* neither the admin list nor the version metadata nor any other record has
\* been written.
C16_FailedInstantiateWritesNothing ==
    (last.op = "instantiate" /\ HasMalformed(last.admins))
        => /\ last.result = "InvalidAddress"
           /\ storage.admin_list = None
           /\ storage.contract_info = None
           /\ storage = last.pre

\* C17: in UpdateAdmins the authorization check comes first.  A caller who is
\* not an admin of a mutable roster gets Unauthorized even when the list holds
\* a malformed identity, and InvalidAddress goes only to an admin of a mutable
\* roster.
C17_AuthorizationBeforeValidation ==
    last.op = "update_admins"
        => LET allowed == MutableIn(last.pre) /\ last.sender \in RosterOf(last.pre)
           IN /\ (~allowed /\ HasMalformed(last.admins)) => last.result = "Unauthorized"
              /\ last.result = "InvalidAddress" => allowed

\* a caller who is not on a mutable roster supplied a malformed identity
C17_Witness ==
    /\ last.op = "update_admins"
    /\ MutableIn(last.pre)
    /\ last.sender \notin RosterOf(last.pre)
    /\ HasMalformed(last.admins)
    /\ last.result = "Unauthorized"

\* C18: the empty mutable roster is absorbing.  From a state with admins empty
\* and mutable true, every Execute, Freeze and UpdateAdmins by any caller
\* returns Unauthorized and no step changes the storage.
C18_EmptyRosterIsAbsorbing ==
    [][(Instantiated /\ storage.admin_list[1].admins = <<>> /\ MutableIn(storage))
          => /\ storage' = storage
             /\ last'.op \in ExecuteOps => last'.result = "Unauthorized"]_vars

\* an admin of a mutable roster emptied it with one UpdateAdmins call; the
\* roster was never frozen
C18_Witness ==
    /\ last.op = "update_admins"
    /\ last.result = "Ok"
    /\ last.admins = <<>>
    /\ last.sender \in RosterOf(last.pre)
    /\ storage.admin_list[1].admins = <<>>
    /\ MutableIn(storage)
    /\ ~freeze_succeeded

\* C19: Execute never touches the roster.  An Execute(msgs) call, successful
\* or not and whatever msgs holds, leaves admins and mutable as they were.
C19_ExecuteLeavesRosterAlone ==
    last.op = "execute"
        => /\ storage.admin_list[1].admins = last.pre.admin_list[1].admins
           /\ storage.admin_list[1].mutable = last.pre.admin_list[1].mutable

\* an admin of a mutable roster forwarded a payload that carries a Freeze
C19_Witness ==
    /\ last.op = "execute"
    /\ last.result = "Ok"
    /\ MutableIn(last.pre)
    /\ "wasm_execute_freeze" \in Range(last.msgs)
====
